---- MODULE Spec2Model ----
(***************************************************************************)
(* A model of three pieces of the Kuma control plane:                      *)
(*   - GatewayRouteGenerator.GenerateHost (gateway route table builder),   *)
(*   - the Envoy TLS context constructors (mesh mTLS and outside-mesh),    *)
(*   - DataplaneMetadataFromXdsMetadata (xDS node metadata decoder).       *)
(*                                                                         *)
(* Go strings that the code inspects character by character (paths, port   *)
(* numbers, SPIFFE ids) are sequences of one-character strings; the empty  *)
(* Go string is <<>>.  Opaque strings are TLA+ strings.  A Go pointer or   *)
(* interface that may be nil is a sequence of length 0 (nil) or 1.         *)
(***************************************************************************)
EXTENDS Integers, Sequences, FiniteSets, TLC

VARIABLES
    hostname,       \* info.Host.Hostname
    routes,         \* info.Host.Routes: the candidate resources of the host
    entries,        \* info.RouteTable.Entries: the caller's route table
    runs            \* history: one record per finished GenerateHost call

routeVars == <<hostname, routes, entries, runs>>

VARIABLES
    mesh,           \* ctx.Mesh.Resource: the mesh name and its mTLS settings
    downstream,     \* the last CreateDownstreamTlsContext call, Nil before it
    upstream,       \* the last CreateUpstreamTlsContext call, Nil before it
    outsideMesh     \* the last UpstreamTlsContextOutsideMesh call, Nil before it

tlsVars == <<mesh, downstream, upstream, outsideMesh>>

VARIABLES
    xdsMetadata,    \* the *structpb.Struct of the node, Nil or one bag
    decoded,        \* the outcome of the decode, Nil before it
    metadataLog     \* the records written to metadataLog

metaVars == <<xdsMetadata, decoded, metadataLog>>

vars == <<routeVars, tlsVars, metaVars>>

(***************************************************************************)
(* Bounds of the model.                                                    *)
(***************************************************************************)
\* match alternatives in the whole input of one host
MaxMatches == 2
\* trailing separators appended to a path body
MaxTrail == 2
\* GenerateHost executions on the same input
MaxRuns == 2

Nil == <<>>

Ptr(v) == <<v>>

(***************************************************************************)
(* strings.TrimRight(s, cutset): s without its trailing characters that    *)
(* are in cutset.                                                          *)
(***************************************************************************)
\* strings.TrimSuffix in the place of strings.TrimRight: one character only
TrimRightOnce(s, cutset) ==
    IF s # <<>> /\ s[Len(s)] \in cutset THEN SubSeq(s, 1, Len(s) - 1) ELSE s

RECURSIVE TrimRight(_, _)
TrimRight(s, cutset) ==
    IF s # <<>> /\ s[Len(s)] \in cutset
    THEN TrimRight(SubSeq(s, 1, Len(s) - 1), cutset)
    ELSE s

(***************************************************************************)
(* Go map helpers: a map is a function; assignment m[k] = v overwrites.    *)
(***************************************************************************)
EmptyMap == [k \in {} |-> Nil]

\* an insertion that keeps the value a key already has
MapPutIfAbsent(m, k, v) ==
    IF k \in DOMAIN m THEN m ELSE [x \in DOMAIN m \cup {k} |-> IF x = k THEN v ELSE m[x]]

MapPut(m, k, v) == [x \in (DOMAIN m) \cup {k} |-> IF x = k THEN v ELSE m[x]]

\* The orders in which a Go `for range` may visit the keys of a map: the
\* language leaves the order unspecified, so every permutation can happen.
RangeOrders(m) ==
    LET n == Cardinality(DOMAIN m)
    IN  {p \in [1..n -> DOMAIN m] : \A i, j \in 1..n : i # j => p[i] # p[j]}

(***************************************************************************)
(* route.Entry and route.Match zero values.                                *)
(***************************************************************************)
ZeroMatch ==
    [ExactPath |-> <<>>, PrefixPath |-> <<>>, RegexPath |-> <<>>,
     Method |-> "",
     ExactHeader |-> <<>>, RegexHeader |-> <<>>,
     ExactQuery |-> <<>>, RegexQuery |-> <<>>]

ZeroEntry ==
    [Match |-> ZeroMatch,
     Action |-> [Forward |-> <<>>, Redirect |-> Nil],
     Mirror |-> Nil,
     RequestHeaders |-> Nil]

Pair(name, value) == [Key |-> name, Value |-> value]

(***************************************************************************)
(* makeRouteEntry(rule): the action payload shared by every match          *)
(* alternative of the rule.                                                *)
(***************************************************************************)
RECURSIVE ForwardTargets(_, _)
ForwardTargets(backends, i) ==
    IF i > Len(backends) THEN <<>>
    ELSE <<[Destination |-> backends[i].destination,
            Weight |-> backends[i].weight,
            Policies |-> Nil]>> \o ForwardTargets(backends, i + 1)

RECURSIVE Pairs(_, _)
Pairs(hs, i) ==
    IF i > Len(hs) THEN <<>>
    ELSE <<Pair(hs[i].name, hs[i].value)>> \o Pairs(hs, i + 1)

ApplyFilter(entry, f) ==
    IF f.redirect # Nil THEN
        LET r == f.redirect[1]
        IN  [entry EXCEPT !.Action.Redirect =
                Ptr([Status |-> r.status_code, Scheme |-> r.scheme,
                     Host |-> r.hostname, Port |-> r.port,
                     StripQuery |-> TRUE])]
    ELSE IF f.mirror # Nil THEN
        LET m == f.mirror[1]
        IN  [entry EXCEPT !.Mirror =
                Ptr([Percentage |-> m.percentage,
                     Forward |-> [Destination |-> m.backend.destination,
                                  Weight |-> 0, Policies |-> Nil]])]
    ELSE IF f.request_header # Nil THEN
        LET h == f.request_header[1]
            old == IF entry.RequestHeaders = Nil
                   THEN [Replace |-> <<>>, Append |-> <<>>, Delete |-> <<>>]
                   ELSE entry.RequestHeaders[1]
        IN  [entry EXCEPT !.RequestHeaders =
                Ptr([Replace |-> old.Replace \o Pairs(h.set, 1),
                     Append |-> old.Append \o Pairs(h.add, 1),
                     Delete |-> old.Delete \o h.remove])]
    ELSE entry

RECURSIVE ApplyFilters(_, _, _)
ApplyFilters(entry, filters, i) ==
    IF i > Len(filters) THEN entry
    ELSE ApplyFilters(ApplyFilter(entry, filters[i]), filters, i + 1)

makeRouteEntry(rule) ==
    ApplyFilters(
        [ZeroEntry EXCEPT !.Action.Forward = ForwardTargets(rule.backends, 1)],
        rule.filters, 1)

(***************************************************************************)
(* makeRouteMatch(ruleMatch).  ruleMatch.path is Nil or one               *)
(* [match, value]; ruleMatch.method is an enum constant; headers and           *)
(* query_parameters are lists of [match, name, value].                     *)
(***************************************************************************)
MethodNames ==
    [Match_CONNECT |-> "CONNECT",
     Match_DELETE |-> "DELETE",
     Match_GET |-> "GET",
     Match_HEAD |-> "HEAD",
     Match_OPTIONS |-> "OPTIONS",
     Match_PATCH |-> "PATCH",
     Match_POST |-> "POST",
     Match_PUT |-> "PUT",
     Match_TRACE |-> "TRACE"]

\* the lookup in a map that has no entry for TRACE
MethodNameWithoutTrace(m) ==
    IF m \in DOMAIN MethodNames \ {"Match_TRACE"} THEN MethodNames[m] ELSE ""

\* names[m] of a Go map[enum]string: the zero value "" for a missing key
MethodName(m) == IF m \in DOMAIN MethodNames THEN MethodNames[m] ELSE ""

RECURSIVE PairsOfKind(_, _, _)
PairsOfKind(ps, kind, i) ==
    IF i > Len(ps) THEN <<>>
    ELSE (IF ps[i].match = kind THEN <<Pair(ps[i].name, ps[i].value)>>
          ELSE <<>>) \o PairsOfKind(ps, kind, i + 1)

makeRouteMatch(ruleMatch) ==
    LET p == ruleMatch.path
        withPath ==
            IF p = Nil THEN ZeroMatch
            ELSE IF p[1].match = "EXACT"
                 THEN [ZeroMatch EXCEPT !.ExactPath = p[1].value]
            ELSE IF p[1].match = "PREFIX"
                 THEN [ZeroMatch EXCEPT !.PrefixPath = p[1].value]
            ELSE IF p[1].match = "REGEX"
                 THEN [ZeroMatch EXCEPT !.RegexPath = p[1].value]
            ELSE ZeroMatch
        withMethod ==
            IF ruleMatch.method # "Match_NONE"
            THEN [withPath EXCEPT !.Method = MethodName(ruleMatch.method)]
            ELSE withPath
    IN  [withMethod EXCEPT
            !.ExactHeader = PairsOfKind(ruleMatch.headers, "EXACT", 1),
            !.RegexHeader = PairsOfKind(ruleMatch.headers, "REGEX", 1),
            !.ExactQuery = PairsOfKind(ruleMatch.query_parameters, "EXACT", 1),
            !.RegexQuery = PairsOfKind(ruleMatch.query_parameters, "REGEX", 1)]

(***************************************************************************)
(* Host acceptance.  A hostname is a sequence of DNS labels.               *)
(***************************************************************************)
WildcardHostname == <<"*">>

\* match.Hostnames(target, matches...): the target equals one of the names,
\* or a name in left-wildcard form (*.example.com) covers it.
HostnameMatches(target, name) ==
    \/ target = name
    \/ /\ name # <<>> /\ name[1] = "*" /\ Len(target) >= Len(name)
       /\ SubSeq(target, Len(target) - Len(name) + 2, Len(target)) = Tail(name)

Hostnames(target, names) == \E n \in names : HostnameMatches(target, n)

\* an accept closure that accepts every route
AcceptRouteAnyHost(host, route) == TRUE

\* the accept closure GenerateHost hands to filterGatewayRoutes
AcceptRoute(host, route) ==
    IF host = WildcardHostname THEN TRUE
    ELSE IF route.hostnames = {} THEN TRUE
    ELSE Hostnames(host, route.hostnames)

RECURSIVE filterGatewayRoutes(_, _, _)
filterGatewayRoutes(in, host, i) ==
    IF i > Len(in) THEN <<>>
    ELSE (IF in[i].type = "GatewayRoute" /\ AcceptRoute(host, in[i])
          THEN <<in[i]>> ELSE <<>>) \o filterGatewayRoutes(in, host, i + 1)

(***************************************************************************)
(* GenerateHost, lines 63-88: every match alternative of every rule of     *)
(* every accepted route becomes one entry; entries with an exact or a      *)
(* prefix path go to the two path-keyed maps, the others straight to the   *)
(* route table.  acc = [exactEntries, prefixEntries, Entries].             *)
(***************************************************************************)
\* the collection with the route table used as a set: an entry equal to one
\* already in the table is not appended again
RECURSIVE CollectMatchesMerged(_, _, _, _)
CollectMatchesMerged(acc, entry, matches, i) ==
    IF i > Len(matches) THEN acc
    ELSE LET routeEntry == [entry EXCEPT !.Match = makeRouteMatch(matches[i])]
             next ==
                IF routeEntry.Match.ExactPath # <<>> THEN
                    [acc EXCEPT !.exactEntries =
                        MapPut(@, routeEntry.Match.ExactPath, routeEntry)]
                ELSE IF routeEntry.Match.PrefixPath # <<>> THEN
                    [acc EXCEPT !.prefixEntries =
                        MapPut(@, routeEntry.Match.PrefixPath, routeEntry)]
                ELSE IF \E k \in 1..Len(acc.Entries) : acc.Entries[k] = routeEntry
                THEN acc
                ELSE [acc EXCEPT !.Entries = Append(@, routeEntry)]
         IN  CollectMatchesMerged(next, entry, matches, i + 1)

RECURSIVE CollectMatches(_, _, _, _)
CollectMatches(acc, entry, matches, i) ==
    IF i > Len(matches) THEN acc
    ELSE LET routeEntry == [entry EXCEPT !.Match = makeRouteMatch(matches[i])]
             next ==
                IF routeEntry.Match.ExactPath # <<>> THEN
                    [acc EXCEPT !.exactEntries =
                        MapPut(@, routeEntry.Match.ExactPath, routeEntry)]
                ELSE IF routeEntry.Match.PrefixPath # <<>> THEN
                    [acc EXCEPT !.prefixEntries =
                        MapPut(@, routeEntry.Match.PrefixPath, routeEntry)]
                ELSE [acc EXCEPT !.Entries = Append(@, routeEntry)]
         IN  CollectMatches(next, entry, matches, i + 1)

RECURSIVE CollectRules(_, _, _)
CollectRules(acc, rules, j) ==
    IF j > Len(rules) THEN acc
    ELSE CollectRules(
            CollectMatches(acc, makeRouteEntry(rules[j]), rules[j].matches, 1),
            rules, j + 1)

RECURSIVE CollectRoutes(_, _, _)
CollectRoutes(acc, gatewayRoutes, i) ==
    IF i > Len(gatewayRoutes) THEN acc
    ELSE CollectRoutes(CollectRules(acc, gatewayRoutes[i].rules, 1),
                       gatewayRoutes, i + 1)

(***************************************************************************)
(* GenerateHost, lines 96-118: the prefix expansion, visiting the prefix   *)
(* map in the given order.                                                 *)
(***************************************************************************)
\* the expansion that appends the Exact copy at once, next to its prefix entry
ExpandPrefixWithExactInPlace(acc, prefixEntry0) ==
    LET exact == TrimRight(prefixEntry0.Match.PrefixPath, {"/"})
        prefixEntry == [prefixEntry0 EXCEPT !.Match.PrefixPath = exact \o <<"/">>]
        appended == [acc EXCEPT !.Entries = Append(@, prefixEntry)]
    IN  IF prefixEntry.Match.PrefixPath = <<"/">> THEN appended
        ELSE IF exact \notin DOMAIN acc.exactEntries THEN
            [appended EXCEPT !.Entries =
                Append(@, [prefixEntry EXCEPT !.Match.PrefixPath = <<>>,
                                              !.Match.ExactPath = exact])]
        ELSE appended

\* the expansion without the test for the root prefix
ExpandPrefixAlsoRoot(acc, prefixEntry0) ==
    LET exact == TrimRight(prefixEntry0.Match.PrefixPath, {"/"})
        prefixEntry == [prefixEntry0 EXCEPT !.Match.PrefixPath = exact \o <<"/">>]
        appended == [acc EXCEPT !.Entries = Append(@, prefixEntry)]
    IN  IF exact \notin DOMAIN acc.exactEntries THEN
            [appended EXCEPT !.exactEntries =
                MapPut(@, exact,
                       [prefixEntry EXCEPT !.Match.PrefixPath = <<>>,
                                           !.Match.ExactPath = exact])]
        ELSE appended

ExpandPrefix(acc, prefixEntry0) ==
    LET exact == TrimRight(prefixEntry0.Match.PrefixPath, {"/"})
        prefixEntry == [prefixEntry0 EXCEPT !.Match.PrefixPath = exact \o <<"/">>]
        appended == [acc EXCEPT !.Entries = Append(@, prefixEntry)]
    IN  IF prefixEntry.Match.PrefixPath = <<"/">> THEN appended
        ELSE IF exact \notin DOMAIN acc.exactEntries THEN
            [appended EXCEPT !.exactEntries =
                MapPut(@, exact,
                       [prefixEntry EXCEPT !.Match.PrefixPath = <<>>,
                                           !.Match.ExactPath = exact])]
        ELSE appended

RECURSIVE ExpandPrefixes(_, _, _)
ExpandPrefixes(acc, order, i) ==
    IF i > Len(order) THEN acc
    ELSE ExpandPrefixes(ExpandPrefix(acc, acc.prefixEntries[order[i]]),
                        order, i + 1)

\* the exact map put in front of the table
RECURSIVE PrependExact(_, _, _, _)
PrependExact(table, exactEntries, order, i) ==
    IF i > Len(order) THEN table
    ELSE PrependExact(<<exactEntries[order[i]]>> \o table, exactEntries,
                      order, i + 1)

\* lines 120-122: the exact map appended in the given order
RECURSIVE AppendExact(_, _, _, _)
AppendExact(table, exactEntries, order, i) ==
    IF i > Len(order) THEN table
    ELSE AppendExact(Append(table, exactEntries[order[i]]), exactEntries,
                     order, i + 1)

\* the (*core_xds.ResourceSet, error) pairs GenerateHost returns
ReturnNoRoutes == [resources |-> Nil, err |-> Nil]

\* a non-nil, empty resource set in the place of nil
ReturnEmptyResourceSet == [resources |-> Ptr({}), err |-> Nil]

ReturnGenerated == [resources |-> Nil, err |-> Nil]

\* history of the call: its host, the length of the table before and after
\* it, and what it returned
Finished(after, result) ==
    Append(runs, [host |-> hostname, before |-> Len(entries),
                  after |-> Len(after), result |-> result])

GenerateHost ==
    /\ Len(runs) < MaxRuns
    /\ LET gatewayRoutes == filterGatewayRoutes(routes, hostname, 1)
       IN  IF Len(gatewayRoutes) = 0
           THEN /\ entries' = entries
                /\ runs' = Finished(entries', ReturnNoRoutes)
           ELSE LET collected ==
                        CollectRoutes([exactEntries |-> EmptyMap,
                                       prefixEntries |-> EmptyMap,
                                       Entries |-> entries],
                                      gatewayRoutes, 1)
                IN  \E prefixOrder \in RangeOrders(collected.prefixEntries) :
                        LET expanded == ExpandPrefixes(collected, prefixOrder, 1)
                        IN  \E exactOrder \in RangeOrders(expanded.exactEntries) :
                                /\ entries' = AppendExact(expanded.Entries,
                                                          expanded.exactEntries,
                                                          exactOrder, 1)
                                /\ runs' = Finished(entries', ReturnGenerated)
    /\ UNCHANGED <<hostname, routes, tlsVars, metaVars>>

\* the caller hands the same route table to the call for another host
NextHost ==
    /\ runs # <<>>
    /\ Len(runs) < MaxRuns
    /\ hostname' \in {WildcardHostname, <<"a", "com">>, <<"d", "net">>} \ {hostname}
    /\ UNCHANGED <<routes, entries, runs, tlsVars, metaVars>>

(***************************************************************************)
(* Inputs of the TLS context constructors.                                 *)
(***************************************************************************)
\* names of at most MaxNameLen characters
MaxNameLen == 2

NameChars == {"a", "/"}

Names == UNION {[1..n -> NameChars] : n \in 0..MaxNameLen}

ServiceInputs == Names \cup {<<"*">>}

MeshNameInputs == Names \ {<<>>}

\* no mtls section, a section with no enabled backend, an enabled backend
MtlsInputs ==
    {Nil,
     Ptr([enabledBackend |-> <<>>, mode |-> "PERMISSIVE"]),
     Ptr([enabledBackend |-> <<"ca-1">>, mode |-> "STRICT"])}

SniInputs == {<<>>, <<"a">>}

\* a []byte argument: nil, or some bytes
BytesInputs == {Nil, Ptr(<<"pem">>)}

(***************************************************************************)
(* TLS contexts.  envoy_tls.CommonTlsContext is                            *)
(* [TlsCertificates, TlsCertificateSdsSecretConfigs, ValidationContextType,*)
(* AlpnProtocols]; the oneof ValidationContextType is [type, value] with   *)
(* type "none" for the unset interface and value Nil for a nil pointer.    *)
(***************************************************************************)
\* xds_tls.MeshCaResource, xds_tls.IdentityCertResource: the SDS names
MeshCaResource == <<"mesh_ca">>

IdentityCertResource == <<"identity_cert">>

\* xds_tls.KumaALPNProtocols
KumaALPNProtocols == <<"kuma">>

SpiffeScheme == <<"s", "p", "i", "f", "f", "e", ":", "/", "/">>

\* xds_tls.MeshSpiffeIDPrefix(mesh): spiffe://{mesh_name}/
MeshSpiffeIDPrefix(meshName) == SpiffeScheme \o meshName \o <<"/">>

\* xds_tls.ServiceSpiffeID(mesh, service): spiffe://{mesh_name}/{service}
ServiceSpiffeID(meshName, service) ==
    SpiffeScheme \o meshName \o <<"/">> \o service

\* MeshResource.MTLSEnabled(): an mTLS section with an enabled backend
MTLSEnabled(m) == m.mtls # Nil /\ m.mtls[1].enabledBackend # <<>>

MeshSpiffeIDPrefixMatcher(meshName) ==
    [MatchPattern |-> [type |-> "Prefix", value |-> MeshSpiffeIDPrefix(meshName)]]

\* a matcher that forgets the service name
ServiceSpiffeIDMatcherNoService(meshName, service) ==
    [MatchPattern |-> [type |-> "Exact", value |-> MeshSpiffeIDPrefix(meshName)]]

ServiceSpiffeIDMatcher(meshName, service) ==
    [MatchPattern |-> [type |-> "Exact", value |-> ServiceSpiffeID(meshName, service)]]

sdsSecretConfig(name) ==
    [Name |-> name,
     SdsConfig |-> [ResourceApiVersion |-> "V3", ConfigSourceSpecifier |-> "Ads"]]

ZeroCommonTlsContext ==
    [TlsCertificates |-> <<>>,
     TlsCertificateSdsSecretConfigs |-> <<>>,
     ValidationContextType |-> [type |-> "none", value |-> Nil],
     AlpnProtocols |-> <<>>]

createCommonTlsContext(validationSANMatcher) ==
    LET meshCaSecret == sdsSecretConfig(MeshCaResource)
        identitySecret == sdsSecretConfig(IdentityCertResource)
    IN  [ctx |-> Ptr([ZeroCommonTlsContext EXCEPT
                !.ValidationContextType =
                    [type |-> "CombinedValidationContext",
                     value |-> Ptr(
                        [DefaultValidationContext |->
                            [TrustedCa |-> Nil,
                             MatchSubjectAltNames |-> <<validationSANMatcher>>],
                         ValidationContextSdsSecretConfig |-> meshCaSecret])],
                !.TlsCertificateSdsSecretConfigs = <<identitySecret>>]),
         err |-> Nil]

CreateDownstreamTlsContext(m) ==
    IF ~MTLSEnabled(m) THEN [ctx |-> Nil, err |-> Nil]
    ELSE LET validationSANMatcher == MeshSpiffeIDPrefixMatcher(m.name)
             common == createCommonTlsContext(validationSANMatcher)
         IN  IF common.err # Nil THEN [ctx |-> Nil, err |-> common.err]
             ELSE [ctx |-> Ptr([CommonTlsContext |-> common.ctx[1],
                                RequireClientCertificate |-> Ptr(TRUE)]),
                   err |-> Nil]

\* an upstream context that verifies every target as "any mesh member"
CreateUpstreamTlsContextAnyMember(m, upstreamService, sni) ==
    IF ~MTLSEnabled(m) THEN [ctx |-> Nil, err |-> Nil]
    ELSE LET common == createCommonTlsContext(MeshSpiffeIDPrefixMatcher(m.name))
         IN  [ctx |-> Ptr([CommonTlsContext |->
                              [common.ctx[1] EXCEPT !.AlpnProtocols = KumaALPNProtocols],
                           Sni |-> sni, AllowRenegotiation |-> FALSE]),
              err |-> Nil]

\* an upstream context built whether or not the mesh has mTLS
CreateUpstreamTlsContextAlways(m, upstreamService, sni) ==
    LET common == createCommonTlsContext(ServiceSpiffeIDMatcher(m.name, upstreamService))
    IN  [ctx |-> Ptr([CommonTlsContext |->
                         [common.ctx[1] EXCEPT !.AlpnProtocols = KumaALPNProtocols],
                      Sni |-> sni, AllowRenegotiation |-> FALSE]),
         err |-> Nil]

CreateUpstreamTlsContext(m, upstreamService, sni) ==
    IF ~MTLSEnabled(m) THEN [ctx |-> Nil, err |-> Nil]
    ELSE LET validationSANMatcher ==
                IF upstreamService = <<"*">>
                THEN MeshSpiffeIDPrefixMatcher(m.name)
                ELSE ServiceSpiffeIDMatcher(m.name, upstreamService)
             common == createCommonTlsContext(validationSANMatcher)
         IN  IF common.err # Nil THEN [ctx |-> Nil, err |-> common.err]
             ELSE [ctx |-> Ptr([CommonTlsContext |->
                                   [common.ctx[1] EXCEPT
                                        !.AlpnProtocols = KumaALPNProtocols],
                                Sni |-> sni,
                                AllowRenegotiation |-> FALSE]),
                   err |-> Nil]

dataSourceFromBytes(bytes) == [Specifier |-> [InlineBytes |-> bytes]]

\* an outside-mesh context that matches the SNI in the place of the hostname
UpstreamTlsContextOutsideMeshBySni(ca, cert, key, allowRenegotiation, host, sni) ==
    [ctx |-> Ptr([AllowRenegotiation |-> allowRenegotiation,
                  Sni |-> sni,
                  CommonTlsContext |-> [ZeroCommonTlsContext EXCEPT
                      !.ValidationContextType =
                          [type |-> "ValidationContext",
                           value |-> IF ca # Nil THEN Ptr(
                              [TrustedCa |-> Ptr(dataSourceFromBytes(ca[1])),
                               MatchSubjectAltNames |->
                                  <<[MatchPattern |-> [type |-> "Exact", value |-> sni]]>>])
                              ELSE Nil]]]),
     err |-> Nil]

UpstreamTlsContextOutsideMesh(ca, cert, key, allowRenegotiation, host, sni) ==
    LET tlsCertificates ==
            IF cert # Nil /\ key # Nil
            THEN <<[CertificateChain |-> dataSourceFromBytes(cert[1]),
                    PrivateKey |-> dataSourceFromBytes(key[1])]>>
            ELSE <<>>
        \* a *CommonTlsContext_ValidationContext, nil unless ca is given
        validationContextType ==
            IF ca # Nil
            THEN Ptr([TrustedCa |-> Ptr(dataSourceFromBytes(ca[1])),
                      MatchSubjectAltNames |->
                          <<[MatchPattern |-> [type |-> "Exact", value |-> host]]>>])
            ELSE Nil
    IN  [ctx |-> Ptr([AllowRenegotiation |-> allowRenegotiation,
                      Sni |-> sni,
                      CommonTlsContext |-> [ZeroCommonTlsContext EXCEPT
                          !.TlsCertificates = tlsCertificates,
                          !.ValidationContextType =
                              [type |-> "ValidationContext",
                               value |-> validationContextType]]]),
         err |-> Nil]

DownstreamCall ==
    /\ downstream' = Ptr([result |-> CreateDownstreamTlsContext(mesh)])
    /\ UNCHANGED <<mesh, upstream, outsideMesh, routeVars, metaVars>>

UpstreamCall ==
    /\ \E upstreamService \in ServiceInputs, sni \in SniInputs :
            upstream' = Ptr([upstreamService |-> upstreamService, sni |-> sni,
                             result |-> CreateUpstreamTlsContext(mesh, upstreamService, sni)])
    /\ UNCHANGED <<mesh, downstream, outsideMesh, routeVars, metaVars>>

OutsideMeshCall ==
    /\ \E ca \in BytesInputs, cert \in BytesInputs, key \in BytesInputs,
          allowRenegotiation \in BOOLEAN, host \in Names, sni \in SniInputs :
            outsideMesh' =
                Ptr([ca |-> ca, cert |-> cert, key |-> key,
                     allowRenegotiation |-> allowRenegotiation,
                     hostname |-> host, sni |-> sni,
                     result |-> UpstreamTlsContextOutsideMesh(
                                    ca, cert, key, allowRenegotiation, host, sni)])
    /\ UNCHANGED <<mesh, downstream, upstream, routeVars, metaVars>>

(***************************************************************************)
(* Dataplane metadata.  A *structpb.Value is Nil or one [kind, str,        *)
(* fields]: str is the string of a string value, fields the members of a   *)
(* struct value.  A uint32 is [hi, lo], its two 16-bit halves, and a Go    *)
(* int (64 bits) is a sign and four 16-bit limbs, least significant first. *)
(***************************************************************************)
fieldDataplaneToken == "dataplane.token"

fieldDataplaneAdminPort == "dataplane.admin.port"

fieldDataplaneDNSPort == "dataplane.dns.port"

fieldDataplaneDNSEmptyPort == "dataplane.dns.empty.port"

fieldDataplaneDataplaneResource == "dataplane.resource"

fieldDynamicMetadata == "dynamicMetadata"

fieldDataplaneProxyType == "dataplane.proxyType"

fieldVersion == "version"

FieldNames ==
    {fieldDataplaneToken, fieldDataplaneAdminPort, fieldDataplaneDNSPort,
     fieldDataplaneDNSEmptyPort, fieldDataplaneDataplaneResource,
     fieldDynamicMetadata, fieldDataplaneProxyType, fieldVersion}

StringValue(str) == Ptr([kind |-> "string", str |-> str, fields |-> EmptyMap])

NumberValue == Ptr([kind |-> "number", str |-> <<>>, fields |-> EmptyMap])

StructValue(fields) == Ptr([kind |-> "struct", str |-> <<>>, fields |-> fields])

\* (*structpb.Value).GetStringValue: "" on nil and on any other kind
GetStringValue(v) ==
    IF v # Nil /\ v[1].kind = "string" THEN v[1].str ELSE <<>>

\* (*structpb.Value).GetStructValue: nil on nil and on any other kind
GetStructValue(v) ==
    IF v # Nil /\ v[1].kind = "struct" THEN Ptr(v[1].fields) ELSE Nil

\* (*structpb.Struct).GetFields: the empty map on nil
GetFields(st) == IF st = Nil THEN EmptyMap ELSE st[1]

Limb == 2 ^ 16

DigitChars == {"0", "1", "2", "3", "4", "5", "6", "7", "8", "9"}

DigitValue(c) ==
    CASE c = "0" -> 0 [] c = "1" -> 1 [] c = "2" -> 2 [] c = "3" -> 3
      [] c = "4" -> 4 [] c = "5" -> 5 [] c = "6" -> 6 [] c = "7" -> 7
      [] c = "8" -> 8 [] c = "9" -> 9

\* limbs * 10 + d, with the carry out of the fourth limb
MulAdd10(n, d) ==
    LET l1 == n.limbs[1] * 10 + d
        l2 == n.limbs[2] * 10 + (l1 \div Limb)
        l3 == n.limbs[3] * 10 + (l2 \div Limb)
        l4 == n.limbs[4] * 10 + (l3 \div Limb)
    IN  [limbs |-> <<l1 % Limb, l2 % Limb, l3 % Limb, l4 % Limb>>,
         overflow |-> n.overflow \/ l4 \div Limb > 0]

RECURSIVE ParseDigits(_, _, _)
ParseDigits(n, digits, i) ==
    IF i > Len(digits) THEN n
    ELSE ParseDigits(MulAdd10(n, DigitValue(digits[i])), digits, i + 1)

\* strconv.Atoi(s) on a 64-bit build: [err, neg, limbs]
Atoi(s) ==
    LET signed == s # <<>> /\ s[1] \in {"+", "-"}
        neg == s # <<>> /\ s[1] = "-"
        digits == IF signed THEN Tail(s) ELSE s
        failed == [err |-> TRUE, neg |-> FALSE, limbs |-> <<0, 0, 0, 0>>]
    IN  IF digits = <<>> \/ \E i \in 1..Len(digits) : digits[i] \notin DigitChars
        THEN failed
        ELSE LET n == ParseDigits([limbs |-> <<0, 0, 0, 0>>, overflow |-> FALSE],
                                  digits, 1)
                 inRange ==
                    /\ ~n.overflow
                    /\ \/ n.limbs[4] < Limb \div 2
                       \/ neg /\ n.limbs = <<0, 0, 0, Limb \div 2>>
             IN  IF inRange
                 THEN [err |-> FALSE, neg |-> neg, limbs |-> n.limbs]
                 ELSE failed

ZeroPort == [hi |-> 0, lo |-> 0]

\* the conversion uint32(port) of a Go int: the low 32 bits, two's complement
Uint32(n) ==
    LET lo == n.limbs[1]
        hi == n.limbs[2]
    IN  IF ~n.neg \/ (lo = 0 /\ hi = 0) THEN [hi |-> hi, lo |-> lo]
        ELSE IF lo = 0 THEN [hi |-> Limb - hi, lo |-> 0]
        ELSE [hi |-> Limb - 1 - hi, lo |-> Limb - lo]

LogInvalidValue(field) ==
    [msg |-> "invalid value in dataplane metadata", field |-> field]

LogInvalidResourceType ==
    [msg |-> "invalid dataplane resource type",
     field |-> fieldDataplaneDataplaneResource]

\* uint32Metadata(xdsMetadata, field): the port and what it logged
uint32Metadata(fields, field) ==
    LET value == fields[field]
        parsed == Atoi(GetStringValue(value))
    IN  IF value = Nil THEN [port |-> ZeroPort, log |-> <<>>]
        ELSE IF parsed.err
        THEN [port |-> ZeroPort, log |-> <<LogInvalidValue(field)>>]
        ELSE [port |-> Uint32(parsed), log |-> <<>>]

\* rest.UnmarshallToCore(bytes): the resource the JSON document describes,
\* or a nil resource and an error for anything that is no resource document
ResourceDocuments == {<<"Dataplane">>, <<"ZoneIngress">>, <<"Mesh">>}

UnmarshallToCore(bytes) ==
    IF bytes \in ResourceDocuments
    THEN [res |-> Ptr([type |-> bytes[1]]), err |-> FALSE]
    ELSE [res |-> Nil, err |-> TRUE]

\* util_proto.ToTyped(struct, version): the version message after the call,
\* one outcome per order in which the members can be decoded.  A member is
\* decoded when it is a known part of the version and a struct itself; the
\* call fails on any other member, leaving what was decoded before.
VersionParts == {"kumaDp", "envoy", "dependencies"}

ZeroVersion == [p \in VersionParts |-> Nil]

Decodable(st, k) == k \in VersionParts /\ st[k][1].kind = "struct"

ToTypedOutcomes(st) ==
    IF \A k \in DOMAIN st : Decodable(st, k)
    THEN {[err |-> FALSE,
           version |-> [p \in VersionParts |->
                            IF p \in DOMAIN st THEN Ptr(st[p][1].fields) ELSE Nil]]}
    ELSE {[err |-> TRUE,
           version |-> [p \in VersionParts |->
                            IF p \in done THEN Ptr(st[p][1].fields) ELSE Nil]] :
            done \in SUBSET {k \in DOMAIN st : Decodable(st, k)}}

ZeroMetadata ==
    [DataplaneToken |-> <<>>, Resource |-> Nil,
     AdminPort |-> ZeroPort, DNSPort |-> ZeroPort, EmptyDNSPort |-> ZeroPort,
     DynamicMetadata |-> Nil, ProxyType |-> <<>>, Version |-> Nil]

\* lines 159-165: the dynamic metadata map
DynamicMetadataOf(value) ==
    LET fs == GetFields(GetStructValue(value))
    IN  Ptr([k \in DOMAIN fs |-> GetStringValue(fs[k])])

\* DataplaneMetadataFromXdsMetadata(xdsMetadata), with typed the outcome of
\* util_proto.ToTyped on the version struct: [panic, metadata, log]
Decode(bag, typed) ==
    IF bag = Nil THEN [panic |-> FALSE, metadata |-> Ptr(ZeroMetadata), log |-> <<>>]
    ELSE
    LET fields == bag[1]
        token == fields[fieldDataplaneToken]
        proxyType == fields[fieldDataplaneProxyType]
        admin == uint32Metadata(fields, fieldDataplaneAdminPort)
        dns == uint32Metadata(fields, fieldDataplaneDNSPort)
        emptyDns == uint32Metadata(fields, fieldDataplaneDNSEmptyPort)
        m1 == [ZeroMetadata EXCEPT
                !.DataplaneToken = IF token # Nil THEN GetStringValue(token) ELSE <<>>,
                !.ProxyType = IF proxyType # Nil THEN GetStringValue(proxyType) ELSE <<>>,
                !.AdminPort = admin.port,
                !.DNSPort = dns.port,
                !.EmptyDNSPort = emptyDns.port]
        log1 == admin.log \o dns.log \o emptyDns.log
        resource == fields[fieldDataplaneDataplaneResource]
        u == UnmarshallToCore(GetStringValue(resource))
        log2 == IF resource # Nil /\ u.err
                THEN log1 \o <<LogInvalidValue(fieldDataplaneDataplaneResource)>>
                ELSE log1
        supported == u.res # Nil /\ u.res[1].type \in {"Dataplane", "ZoneIngress"}
        \* the default case evaluates r.Descriptor() on the decoded resource
        nilDereference == resource # Nil /\ ~supported /\ u.res = Nil
        m2 == IF resource # Nil /\ supported THEN [m1 EXCEPT !.Resource = u.res] ELSE m1
        log3 == IF resource # Nil /\ ~supported
                THEN log2 \o <<LogInvalidResourceType>>
                ELSE log2
        dynamic == fields[fieldDynamicMetadata]
        m3 == IF dynamic # Nil
              THEN [m2 EXCEPT !.DynamicMetadata = DynamicMetadataOf(dynamic)]
              ELSE m2
        version == fields[fieldVersion]
        hasVersion == GetStructValue(version) # Nil
        m4 == IF hasVersion THEN [m3 EXCEPT !.Version = Ptr(typed.version)] ELSE m3
        log4 == IF hasVersion /\ typed.err
                THEN log3 \o <<LogInvalidValue(fieldVersion)>>
                ELSE log3
    IN  IF nilDereference
        THEN [panic |-> TRUE, metadata |-> Nil, log |-> log2]
        ELSE [panic |-> FALSE, metadata |-> Ptr(m4), log |-> log4]

DataplaneMetadataFromXdsMetadata ==
    /\ decoded = Nil
    /\ \E typed \in ToTypedOutcomes(
            GetFields(GetStructValue(
                IF xdsMetadata = Nil THEN Nil ELSE xdsMetadata[1][fieldVersion]))) :
            LET out == Decode(xdsMetadata, typed)
            IN  /\ decoded' = Ptr([panic |-> out.panic, metadata |-> out.metadata])
                /\ metadataLog' = metadataLog \o out.log
    /\ UNCHANGED <<xdsMetadata, routeVars, tlsVars>>

(***************************************************************************)
(* The accessors of *DataplaneMetadata.  m is Nil or one record.            *)
(***************************************************************************)
\* the proxy type of a record that names none
DataplaneProxyType == <<"dataplane">>

GetDataplaneToken(m) == IF m = Nil THEN <<>> ELSE m[1].DataplaneToken

\* the resource of a record whatever its type
GetDataplaneResourceOfAnyType(m) == IF m # Nil THEN m[1].Resource ELSE Nil

GetDataplaneResource(m) ==
    IF m # Nil /\ m[1].Resource # Nil /\ m[1].Resource[1].type = "Dataplane"
    THEN m[1].Resource ELSE Nil

GetZoneIngressResource(m) ==
    IF m # Nil /\ m[1].Resource # Nil /\ m[1].Resource[1].type = "ZoneIngress"
    THEN m[1].Resource ELSE Nil

GetProxyType(m) ==
    IF m = Nil \/ m[1].ProxyType = <<>> THEN DataplaneProxyType ELSE m[1].ProxyType

GetAdminPort(m) == IF m = Nil THEN ZeroPort ELSE m[1].AdminPort

GetDNSPort(m) == IF m = Nil THEN ZeroPort ELSE m[1].DNSPort

GetEmptyDNSPort(m) == IF m = Nil THEN ZeroPort ELSE m[1].EmptyDNSPort

\* a missing key of a Go map reads as ""
GetDynamicMetadata(m, key) ==
    IF m = Nil \/ m[1].DynamicMetadata = Nil THEN <<>>
    ELSE IF key \in DOMAIN m[1].DynamicMetadata[1] THEN m[1].DynamicMetadata[1][key]
    ELSE <<>>

GetVersion(m) == IF m = Nil THEN Nil ELSE m[1].Version

(***************************************************************************)
(* Inputs of the metadata decoder.                                         *)
(***************************************************************************)
PortInputs ==
    {Nil, NumberValue,
     StringValue(<<"8", "0", "8", "0">>), StringValue(<<"0">>),
     StringValue(<<>>), StringValue(<<"n", "o", "t", "-", "a", "-", "n", "u", "m", "b", "e", "r">>),
     StringValue(<<"-", "1">>),
     StringValue(<<"4", "2", "9", "4", "9", "6", "7", "2", "9", "7">>)}

\* the DNS port and the empty-DNS port, drawn together
OtherPortInputs ==
    {<<Nil, Nil>>,
     <<StringValue(<<"5", "3">>), StringValue(<<"x">>)>>,
     <<StringValue(<<"x">>), StringValue(<<"5", "3">>)>>}

ResourceInputs ==
    {Nil, NumberValue, StringValue(<<"not json">>)}
    \cup {StringValue(d) : d \in ResourceDocuments}

DynamicMetadataInputs ==
    {Nil, StringValue(<<"tags">>),
     StructValue([k \in {"a", "b"} |->
        IF k = "a" THEN StringValue(<<"1">>) ELSE NumberValue])}

VersionInputs ==
    {Nil, StringValue(<<"1.0">>),
     StructValue([k \in {"kumaDp", "envoy"} |->
        StructValue([f \in {"version"} |-> StringValue(<<"1.0">>)])]),
     StructValue([k \in {"kumaDp", "envoy"} |->
        IF k = "envoy" THEN StringValue(<<"1.16">>)
        ELSE StructValue([f \in {"version"} |-> StringValue(<<"1.0">>)])])}

\* the token and the proxy type, drawn together
IdentityInputs ==
    {<<Nil, Nil>>,
     <<NumberValue, StringValue(<<"ingress">>)>>,
     <<StringValue(<<"token">>), StringValue(<<>>)>>}

BagInputs ==
    {Nil} \cup
    {Ptr([f \in FieldNames |->
            CASE f = fieldDataplaneToken -> id[1]
              [] f = fieldDataplaneProxyType -> id[2]
              [] f = fieldDataplaneAdminPort -> ap
              [] f = fieldDataplaneDNSPort -> op[1]
              [] f = fieldDataplaneDNSEmptyPort -> op[2]
              [] f = fieldDataplaneDataplaneResource -> r
              [] f = fieldDynamicMetadata -> dm
              [] f = fieldVersion -> v]) :
        id \in IdentityInputs, ap \in PortInputs, op \in OtherPortInputs,
        r \in ResourceInputs, dm \in DynamicMetadataInputs, v \in VersionInputs}

(***************************************************************************)
(* Inputs.  The candidates of a host are built from a shape (per route,    *)
(* per rule, the number of match alternatives), the match alternatives in  *)
(* input order, the payload of every rule and the kind of every route.     *)
(***************************************************************************)
RECURSIVE Slashes(_)
Slashes(k) == IF k = 0 THEN <<>> ELSE <<"/">> \o Slashes(k - 1)

PathBodies == {<<>>, <<"/", "a">>}

Paths == {b \o Slashes(k) : b \in PathBodies, k \in 0..MaxTrail}

\* exact paths are never normalised: no or one trailing separator
ExactPaths == {b \o Slashes(k) : b \in PathBodies, k \in {0, 1}}

PathOnly(p) ==
    [path |-> p, method |-> "Match_NONE", headers |-> <<>>, query_parameters |-> <<>>]

PathMatchInputs ==
    {PathOnly(Nil), PathOnly(Ptr([match |-> "REGEX", value |-> <<"/", "a", ".", "*">>]))}
    \cup {PathOnly(Ptr([match |-> "PREFIX", value |-> p])) : p \in Paths}
    \cup {PathOnly(Ptr([match |-> "EXACT", value |-> p])) : p \in ExactPaths}

\* colliding keys: two raw prefixes with one stripped form, an exact path at
\* that stripped form, and a second exact path
CallMatchInputs ==
    {PathOnly(Ptr([match |-> "PREFIX", value |-> <<"/", "a">>])),
     PathOnly(Ptr([match |-> "PREFIX", value |-> <<"/", "a", "/">>])),
     PathOnly(Ptr([match |-> "EXACT", value |-> <<"/", "a">>])),
     PathOnly(Ptr([match |-> "EXACT", value |-> <<"/">>]))}

\* every kind of alternative: without a path and unconstrained, with a
\* method, a header or a query predicate only, with a regex path; exact and
\* prefix paths that collide, alone and with a method or a header predicate
KindMatchInputs ==
    LET none == PathOnly(Nil)
        exact == PathOnly(Ptr([match |-> "EXACT", value |-> <<"/", "a">>]))
        prefix == PathOnly(Ptr([match |-> "PREFIX", value |-> <<"/", "a">>]))
        header == <<[match |-> "EXACT", name |-> "X", value |-> "1"]>>
    IN  {none,
         [none EXCEPT !.method = "Match_GET"],
         [none EXCEPT !.headers = header],
         [none EXCEPT !.query_parameters =
                        <<[match |-> "REGEX", name |-> "q", value |-> ".+"]>>],
         PathOnly(Ptr([match |-> "REGEX", value |-> <<"/", "a", ".", "*">>])),
         exact,
         [exact EXCEPT !.method = "Match_GET"],
         prefix,
         [prefix EXCEPT !.headers = header],
         PathOnly(Ptr([match |-> "PREFIX", value |-> <<"/", "a", "/">>]))}

\* the constants of the method enum this file names
MethodInputs == DOMAIN MethodNames \cup {"Match_NONE"}

\* every method, on an alternative without a path and on one with a path
MethodMatchInputs ==
    {[PathOnly(p) EXCEPT !.method = m] :
        m \in MethodInputs,
        p \in {Nil, Ptr([match |-> "EXACT", value |-> <<"/", "a">>])}}

\* an alternative without a path and one with a prefix path
TableMatchInputs ==
    {PathOnly(Nil), PathOnly(Ptr([match |-> "PREFIX", value |-> <<"/", "a">>]))}

\* the route table the caller supplies: empty, or with an entry of an
\* earlier generator
TableInputs ==
    {<<>>, <<[ZeroEntry EXCEPT !.Match.ExactPath = <<"/", "z">>]>>}

HostMatchInputs ==
    {PathOnly(Nil),
     PathOnly(Ptr([match |-> "EXACT", value |-> <<"/", "a">>])),
     PathOnly(Ptr([match |-> "PREFIX", value |-> <<"/", "a">>]))}

PayloadA ==
    [backends |-> <<[destination |-> "svc-a", weight |-> 1]>>, filters |-> <<>>]

NoFilter == [redirect |-> Nil, mirror |-> Nil, request_header |-> Nil]

PayloadB ==
    [backends |-> <<[destination |-> "svc-b", weight |-> 2]>>,
     filters |-> <<
        [NoFilter EXCEPT !.request_header =
            Ptr([set |-> <<[name |-> "x", value |-> "1"]>>,
                 add |-> <<[name |-> "y", value |-> "2"]>>,
                 remove |-> <<"z">>])],
        [NoFilter EXCEPT !.mirror =
            Ptr([percentage |-> 10, backend |-> [destination |-> "svc-m"]])],
        [NoFilter EXCEPT !.redirect =
            Ptr([status_code |-> 301, scheme |-> "https",
                 hostname |-> "example.com", port |-> 443])]>>]

PayloadInputs == {PayloadA, PayloadB}

AnyHostRoute == [type |-> "GatewayRoute", hostnames |-> {}]

RouteKindInputs ==
    {AnyHostRoute,
     [type |-> "GatewayRoute", hostnames |-> {<<"a", "com">>}],
     [type |-> "GatewayRoute", hostnames |-> {<<"*", "org">>, <<"b", "com">>}],
     [type |-> "TrafficRoute", hostnames |-> {}]}

HostnameInputs == {WildcardHostname, <<"a", "com">>, <<"c", "org">>, <<"d", "net">>}

RECURSIVE SumSeq(_, _)
SumSeq(s, n) == IF n = 0 THEN 0 ELSE s[n] + SumSeq(s, n - 1)

RECURSIVE RulesBefore(_, _)
RulesBefore(shape, i) ==
    IF i = 1 THEN 0 ELSE Len(shape[i - 1]) + RulesBefore(shape, i - 1)

RECURSIVE MatchesBefore(_, _)
MatchesBefore(shape, i) ==
    IF i = 1 THEN 0
    ELSE SumSeq(shape[i - 1], Len(shape[i - 1])) + MatchesBefore(shape, i - 1)

NumRules(shape) == RulesBefore(shape, Len(shape) + 1)

NumMatches(shape) == MatchesBefore(shape, Len(shape) + 1)

\* n match alternatives: in one rule, in one rule each, or in one route each
ShapesOf(n) ==
    {<< <<n>> >>, << [j \in 1..n |-> 1] >>, [i \in 1..n |-> <<1>>]}

BuildRoutes(shape, ms, ps, ks) ==
    [i \in 1..Len(shape) |->
        [type |-> ks[i].type,
         hostnames |-> ks[i].hostnames,
         rules |->
            [j \in 1..Len(shape[i]) |->
                [backends |-> ps[RulesBefore(shape, i) + j].backends,
                 filters |-> ps[RulesBefore(shape, i) + j].filters,
                 matches |->
                    [k \in 1..shape[i][j] |->
                        ms[MatchesBefore(shape, i) + SumSeq(shape[i], j - 1) + k]]]]]]

\* info.Host.Routes is one of the candidate lists of the bounds
RoutesFrom(matchInputs, payloadInputs, kindInputs) ==
    \E n \in 0..MaxMatches :
        \E shape \in ShapesOf(n) :
            \E ms \in [1..NumMatches(shape) -> matchInputs],
               ps \in [1..NumRules(shape) -> payloadInputs],
               ks \in [1..Len(shape) -> kindInputs] :
                routes = BuildRoutes(shape, ms, ps, ks)

NoTls ==
    /\ mesh = [name |-> <<"m">>, mtls |-> Nil]
    /\ downstream = Nil
    /\ upstream = Nil
    /\ outsideMesh = Nil

NoMetadata ==
    /\ xdsMetadata = Nil
    /\ decoded = Nil
    /\ metadataLog = <<>>

\* one call: any paths, every candidate accepted
Init ==
    /\ hostname = WildcardHostname
    /\ RoutesFrom(PathMatchInputs, PayloadInputs, {AnyHostRoute})
    /\ entries = <<>>
    /\ runs = <<>>
    /\ NoTls
    /\ NoMetadata

\* repeated executions on the same candidates: colliding paths
InitCalls ==
    /\ hostname = WildcardHostname
    /\ RoutesFrom(CallMatchInputs, PayloadInputs, {AnyHostRoute})
    /\ entries = <<>>
    /\ runs = <<>>
    /\ NoTls
    /\ NoMetadata

\* one call: every kind of alternative, every candidate accepted
InitKinds ==
    /\ hostname = WildcardHostname
    /\ RoutesFrom(KindMatchInputs, PayloadInputs, {AnyHostRoute})
    /\ entries = <<>>
    /\ runs = <<>>
    /\ NoTls
    /\ NoMetadata

\* one call: every method
InitMethods ==
    /\ hostname = WildcardHostname
    /\ RoutesFrom(MethodMatchInputs, {PayloadA}, {AnyHostRoute})
    /\ entries = <<>>
    /\ runs = <<>>
    /\ NoTls
    /\ NoMetadata

\* calls for several hosts on one route table
InitTable ==
    /\ hostname \in {WildcardHostname, <<"a", "com">>, <<"d", "net">>}
    /\ RoutesFrom(TableMatchInputs, {PayloadA}, RouteKindInputs)
    /\ entries \in TableInputs
    /\ runs = <<>>
    /\ NoTls
    /\ NoMetadata

\* host acceptance: any kind of candidate, a few paths
InitHosts ==
    /\ hostname \in HostnameInputs
    /\ RoutesFrom(HostMatchInputs, {PayloadA}, RouteKindInputs)
    /\ entries = <<>>
    /\ runs = <<>>
    /\ NoTls
    /\ NoMetadata

InitTls ==
    /\ mesh \in [name : MeshNameInputs, mtls : MtlsInputs]
    /\ downstream = Nil
    /\ upstream = Nil
    /\ outsideMesh = Nil
    /\ hostname = WildcardHostname
    /\ routes = <<>>
    /\ entries = <<>>
    /\ runs = <<>>
    /\ NoMetadata

InitOutsideMesh ==
    /\ NoTls
    /\ hostname = WildcardHostname
    /\ routes = <<>>
    /\ entries = <<>>
    /\ runs = <<>>
    /\ NoMetadata

InitMeta ==
    /\ xdsMetadata \in BagInputs
    /\ decoded = Nil
    /\ metadataLog = <<>>
    /\ NoTls
    /\ hostname = WildcardHostname
    /\ routes = <<>>
    /\ entries = <<>>
    /\ runs = <<>>

Next == GenerateHost

\* one call on the empty route table
NextFirst == runs = <<>> /\ GenerateHost

NextTable == GenerateHost \/ NextHost

NextMeta == DataplaneMetadataFromXdsMetadata

NextTls == DownstreamCall \/ UpstreamCall

NextOutsideMesh == OutsideMeshCall

Spec == Init /\ [][NextFirst]_vars

SpecCalls == InitCalls /\ [][Next]_vars

SpecKinds == InitKinds /\ [][NextFirst]_vars

SpecMethods == InitMethods /\ [][NextFirst]_vars

SpecTable == InitTable /\ [][NextTable]_vars

SpecHosts == InitHosts /\ [][Next]_vars

SpecTls == InitTls /\ [][NextTls]_vars

SpecOutsideMesh == InitOutsideMesh /\ [][NextOutsideMesh]_vars

SpecMeta == InitMeta /\ [][NextMeta]_vars

(***************************************************************************)
(* Route table claims.                                                     *)
(***************************************************************************)
\* what a finished call appended to the route table
Appended(run) == SubSeq(entries, run.before + 1, run.after)

Accepted == filterGatewayRoutes(routes, hostname, 1)

\* the declared match alternatives of the accepted candidates, in input
\* order, each with the payload of its rule
RECURSIVE DeclaredOfRule(_, _)
DeclaredOfRule(rule, k) ==
    IF k > Len(rule.matches) THEN <<>>
    ELSE <<[makeRouteEntry(rule) EXCEPT !.Match = makeRouteMatch(rule.matches[k])]>>
         \o DeclaredOfRule(rule, k + 1)

RECURSIVE DeclaredOfRoute(_, _)
DeclaredOfRoute(route, j) ==
    IF j > Len(route.rules) THEN <<>>
    ELSE DeclaredOfRule(route.rules[j], 1) \o DeclaredOfRoute(route, j + 1)

RECURSIVE DeclaredOfRoutes(_, _)
DeclaredOfRoutes(rs, i) ==
    IF i > Len(rs) THEN <<>>
    ELSE DeclaredOfRoute(rs[i], 1) \o DeclaredOfRoutes(rs, i + 1)

Declared == DeclaredOfRoutes(Accepted, 1)

Range(s) == {s[i] : i \in 1..Len(s)}

\* C1: among the entries one GenerateHost call appends, no two have the same
\* non-empty ExactPath and no two have the same non-empty PrefixPath.
C1_NoDuplicatePath ==
    \A r \in 1..Len(runs) :
        LET a == Appended(runs[r])
        IN  \A i, j \in 1..Len(a) :
                i # j =>
                    /\ a[i].Match.ExactPath # <<>>
                            => a[i].Match.ExactPath # a[j].Match.ExactPath
                    /\ a[i].Match.PrefixPath # <<>>
                            => a[i].Match.PrefixPath # a[j].Match.PrefixPath

\* C3: every execution of GenerateHost on the same candidates and host
\* appends the same sequence of entries.
C3_Reproducible ==
    \A r1, r2 \in 1..Len(runs) : Appended(runs[r1]) = Appended(runs[r2])

\* C9: every appended entry with a non-empty PrefixPath has a PrefixPath that
\* ends in "/" and does not end in "//".
C9_PrefixEndsInOneSeparator ==
    \A r \in 1..Len(runs) :
        \A e \in Range(Appended(runs[r])) :
            LET p == e.Match.PrefixPath
            IN  p # <<>> =>
                    /\ p[Len(p)] = "/"
                    /\ Len(p) >= 2 => p[Len(p) - 1] # "/"

\* a call has run on an input that declares a prefix with several trailing
\* separators and a prefix with none, and appended prefix entries
C9_Witness ==
    /\ runs # <<>>
    /\ \E d \in Range(Declared) :
            LET p == d.Match.PrefixPath
            IN  Len(p) >= 2 /\ p[Len(p)] = "/" /\ p[Len(p) - 1] = "/"
    /\ \E d \in Range(Declared) :
            LET p == d.Match.PrefixPath IN p # <<>> /\ p[Len(p)] # "/"
    /\ \E e \in Range(Appended(runs[1])) : e.Match.PrefixPath = <<"/", "a", "/">>
    /\ \E e \in Range(Appended(runs[1])) : e.Match.PrefixPath = <<"/">>

\* C10: for every appended prefix entry p + "/" with p non-empty there is
\* exactly one appended entry with ExactPath = p; it is the entry of a
\* declared exact rule at p when there is one, and otherwise a copy of the
\* prefix entry with the prefix path cleared.
C10_OneExactPerPrefix ==
    \A r \in 1..Len(runs) :
        LET a == Appended(runs[r])
        IN  \A i \in 1..Len(a) :
                LET pp == a[i].Match.PrefixPath
                    p == SubSeq(pp, 1, Len(pp) - 1)
                    declared == {d \in Range(Declared) : d.Match.ExactPath = p}
                IN  (pp # <<>> /\ p # <<>>) =>
                        /\ Cardinality({j \in 1..Len(a) : a[j].Match.ExactPath = p}) = 1
                        /\ \A j \in 1..Len(a) :
                                a[j].Match.ExactPath = p =>
                                    IF declared # {}
                                    THEN a[j] \in declared
                                    ELSE a[j] = [a[i] EXCEPT !.Match.PrefixPath = <<>>,
                                                            !.Match.ExactPath = p]

\* the entries one execution appends for the accepted candidates rs, the two
\* maps visited in one of their orders
OneExecution(rs) ==
    LET collected == CollectRoutes([exactEntries |-> EmptyMap,
                                    prefixEntries |-> EmptyMap,
                                    Entries |-> <<>>], rs, 1)
        prefixOrder == CHOOSE o \in RangeOrders(collected.prefixEntries) : TRUE
        expanded == ExpandPrefixes(collected, prefixOrder, 1)
        exactOrder == CHOOSE o \in RangeOrders(expanded.exactEntries) : TRUE
    IN  AppendExact(expanded.Entries, expanded.exactEntries, exactOrder, 1)

\* a declared prefix made of separators only: its normalized path is "/"
IsRootPrefix(m) ==
    /\ m.path # Nil
    /\ m.path[1].match = "PREFIX"
    /\ m.path[1].value # <<>>
    /\ TrimRight(m.path[1].value, {"/"}) = <<>>

RECURSIVE SelectMatches(_, _)
SelectMatches(ms, k) ==
    IF k > Len(ms) THEN <<>>
    ELSE (IF IsRootPrefix(ms[k]) THEN <<>> ELSE <<ms[k]>>) \o SelectMatches(ms, k + 1)

\* the candidates without their root prefix alternatives
WithoutRootPrefix(rs) ==
    [i \in 1..Len(rs) |->
        [rs[i] EXCEPT !.rules =
            [j \in 1..Len(rs[i].rules) |->
                [rs[i].rules[j] EXCEPT !.matches = SelectMatches(@, 1)]]]]

NonPrefixCount(a) == Cardinality({i \in 1..Len(a) : a[i].Match.PrefixPath = <<>>})

\* C11: a root prefix rule synthesizes no Exact entry: a call appends as many
\* entries that are not Prefix entries as it appends for the input without
\* the root prefix rules, and an appended entry with ExactPath "/" is the
\* entry of a declared exact rule.
C11_RootPrefixHasNoExact ==
    \A r \in 1..Len(runs) :
        LET a == Appended(runs[r])
        IN  /\ NonPrefixCount(a) = NonPrefixCount(OneExecution(WithoutRootPrefix(Accepted)))
            /\ \A e \in Range(a) :
                    e.Match.ExactPath = <<"/">> => e \in Range(Declared)

\* a call on an input with the root prefix declared with several separators
\* and a prefix below the root: the root prefix entry and the Exact copy of the
\* other prefix are appended
C11_Witness ==
    /\ runs # <<>>
    /\ \E i \in 1..Len(Accepted) : \E j \in 1..Len(Accepted[i].rules) :
            \E k \in 1..Len(Accepted[i].rules[j].matches) :
                /\ IsRootPrefix(Accepted[i].rules[j].matches[k])
                /\ Len(Accepted[i].rules[j].matches[k].path[1].value) >= 2
    /\ \E e \in Range(Appended(runs[1])) : e.Match.PrefixPath = <<"/">>
    /\ \E e \in Range(Appended(runs[1])) : e.Match.ExactPath = <<"/", "a">>

\* C4 as claimed: a call that appends nothing returns the "nothing applicable"
\* signal, and a call that appends entries returns something else.
C4_SignalDistinguishes ==
    \A r \in 1..Len(runs) :
        /\ Appended(runs[r]) = <<>> => runs[r].result = ReturnNoRoutes
        /\ Appended(runs[r]) # <<>> => runs[r].result # ReturnNoRoutes

\* C4 (amended): every call returns the nil resource set and the nil error,
\* whether or not it appended entries; a call with no accepted candidate
\* leaves the route table as it was.
C4_ResultIsAlwaysNil ==
    \A r \in 1..Len(runs) :
        /\ runs[r].result = [resources |-> Nil, err |-> Nil]
        /\ Accepted = <<>> => runs[r].after = runs[r].before

\* one call appended entries, and returned what a call that appends nothing
\* returns
C4_Witness ==
    /\ runs # <<>>
    /\ Appended(runs[1]) # <<>>
    /\ Len(Accepted) < Len(routes)
    /\ runs[1].result = ReturnNoRoutes

\* the candidates that pass the test of the claim, in input order
RECURSIVE Passing(_, _)
Passing(rs, i) ==
    IF i > Len(rs) THEN <<>>
    ELSE (IF /\ rs[i].type = "GatewayRoute"
             /\ \/ hostname = <<"*">>
                \/ rs[i].hostnames = {}
                \/ \E n \in rs[i].hostnames : HostnameMatches(hostname, n)
          THEN <<rs[i]>> ELSE <<>>) \o Passing(rs, i + 1)

\* C12: a call appends the entries of exactly the candidates that are gateway
\* routes and are accepted for the host (wildcard host, no declared
\* hostnames, or a declared hostname that matches the host); the other
\* candidates contribute nothing.
C12_ExactlyAccepted ==
    \A r \in 1..Len(runs) :
        LET a == Appended(runs[r])
            expected == OneExecution(Passing(routes, 1))
        IN  /\ Len(a) = Len(expected)
            /\ Range(a) = Range(expected)

\* a call for a host that a wildcard name of one candidate covers and that
\* the other candidate does not name: the entry of the first only
C12_Witness ==
    /\ runs # <<>>
    /\ hostname = <<"c", "org">>
    /\ Len(routes) = 2
    /\ routes[1].hostnames = {<<"a", "com">>}
    /\ routes[1].rules[1].matches[1].path # Nil
    /\ routes[2].hostnames = {<<"*", "org">>, <<"b", "com">>}
    /\ routes[2].rules[1].matches[1].path = Nil
    /\ Appended(runs[1]) = DeclaredOfRoute(routes[2], 1)

\* an entry with neither an exact nor a prefix path
IsOther(e) == e.Match.ExactPath = <<>> /\ e.Match.PrefixPath = <<>>

\* C13: the appended entries without an exact or prefix path are, in input
\* order and one for one, the declared alternatives without an exact or prefix
\* path, each with the payload of its rule; equal ones are not merged.
C13_OtherEntriesInOrder ==
    \A r \in 1..Len(runs) :
        SelectSeq(Appended(runs[r]), IsOther) = SelectSeq(Declared, IsOther)

\* a call on one rule with the full payload and two alternatives, a header
\* and a method predicate: two entries in that order, both with the redirect,
\* the mirror and the header mutations of the rule
C13_Witness ==
    /\ runs # <<>>
    /\ Len(Appended(runs[1])) = 2
    /\ Len(routes) = 1 /\ Len(routes[1].rules) = 1
    /\ Appended(runs[1])[1].Match.ExactHeader = <<Pair("X", "1")>>
    /\ Appended(runs[1])[1].Match.Method = ""
    /\ Appended(runs[1])[2].Match.Method = "GET"
    /\ Appended(runs[1])[2].Match.ExactHeader = <<>>
    /\ \A i \in 1..2 :
            LET e == Appended(runs[1])[i]
            IN  /\ e.Action.Forward =
                        <<[Destination |-> "svc-b", Weight |-> 2, Policies |-> Nil]>>
                /\ e.Action.Redirect # Nil /\ e.Action.Redirect[1].Status = 301
                /\ e.Mirror # Nil /\ e.Mirror[1].Percentage = 10
                /\ e.RequestHeaders # Nil
                /\ e.RequestHeaders[1].Replace = <<Pair("x", "1")>>

\* the match alternatives the accepted candidates declare, in input order
RECURSIVE RawOfRoute(_, _)
RawOfRoute(route, j) ==
    IF j > Len(route.rules) THEN <<>>
    ELSE route.rules[j].matches \o RawOfRoute(route, j + 1)

RECURSIVE RawOfRoutes(_, _)
RawOfRoutes(rs, i) ==
    IF i > Len(rs) THEN <<>>
    ELSE RawOfRoute(rs[i], 1) \o RawOfRoutes(rs, i + 1)

Raw == RawOfRoutes(Accepted, 1)

HasNoPath(m) == m.path = Nil

NineVerbs ==
    [Match_GET |-> "GET", Match_POST |-> "POST", Match_PUT |-> "PUT",
     Match_PATCH |-> "PATCH", Match_DELETE |-> "DELETE", Match_HEAD |-> "HEAD",
     Match_OPTIONS |-> "OPTIONS", Match_CONNECT |-> "CONNECT",
     Match_TRACE |-> "TRACE"]

\* C14: makeRouteMatch gives an alternative that declares one of the nine
\* verbs the name of that verb as its method constraint, distinct verbs get
\* distinct constraints, and the constraint is empty for the sentinel NONE
\* only; the appended entries carry these constraints.
C14_MethodConstraint ==
    /\ \A k \in 1..Len(Raw) :
            LET c == makeRouteMatch(Raw[k]).Method
            IN  /\ Raw[k].method \in DOMAIN NineVerbs => c = NineVerbs[Raw[k].method]
                /\ c = "" <=> Raw[k].method = "Match_NONE"
    /\ \A k1, k2 \in 1..Len(Raw) :
            Raw[k1].method # Raw[k2].method
                => makeRouteMatch(Raw[k1]).Method # makeRouteMatch(Raw[k2]).Method
    /\ \A r \in 1..Len(runs) :
            LET other == SelectSeq(Appended(runs[r]), IsOther)
                declared == SelectSeq(Raw, HasNoPath)
            IN  /\ Len(other) = Len(declared)
                /\ \A k \in 1..Len(other) :
                        other[k].Match.Method =
                            IF declared[k].method = "Match_NONE" THEN ""
                            ELSE NineVerbs[declared[k].method]

\* a call on alternatives that declare TRACE and the sentinel: an entry
\* constrained to TRACE and an unconstrained one
C14_Witness ==
    /\ runs # <<>>
    /\ Len(Raw) = 2
    /\ Raw[1].method = "Match_TRACE" /\ Raw[1].path = Nil
    /\ Raw[2].method = "Match_NONE" /\ Raw[2].path = Nil
    /\ Len(Appended(runs[1])) = 2
    /\ Appended(runs[1])[1].Match.Method = "TRACE"
    /\ Appended(runs[1])[2].Match.Method = ""

\* C18: a step leaves the entries of the route table where they were and as
\* they were and only appends to them, over calls for several hosts on one
\* table; a call that accepts no candidate leaves the table as it was; the
\* candidates are not modified.
C18_OnlyAppends ==
    [][/\ Len(entries') >= Len(entries)
       /\ SubSeq(entries', 1, Len(entries)) = entries
       /\ routes' = routes
       /\ (runs' # runs /\ Accepted = <<>>) => entries' = entries]_vars

\* two calls for two hosts on a table that had an entry before them: the
\* first accepted no candidate, the second appended entries
C18_Witness ==
    /\ Len(runs) = 2
    /\ runs[1].host # runs[2].host
    /\ runs[1].before = 1
    /\ runs[1].after = runs[1].before
    /\ runs[2].after > runs[2].before
    /\ <<entries[1]>> \in TableInputs
    /\ \E i \in 2..Len(entries) : entries[i].Match.ExactPath = <<"/", "a">>

\* the declared entry that comes last in input order among those with the
\* exact path p, and among those with the raw prefix path q
LastDeclaredExact(p) ==
    Declared[CHOOSE k \in 1..Len(Declared) :
                /\ Declared[k].Match.ExactPath = p
                /\ \A l \in (k + 1)..Len(Declared) : Declared[l].Match.ExactPath # p]

LastDeclaredPrefix(q) ==
    Declared[CHOOSE k \in 1..Len(Declared) :
                /\ Declared[k].Match.ExactPath = <<>>
                /\ Declared[k].Match.PrefixPath = q
                /\ \A l \in (k + 1)..Len(Declared) :
                        Declared[l].Match.ExactPath # <<>>
                            \/ Declared[l].Match.PrefixPath # q]

ExactKeys == {d.Match.ExactPath : d \in Range(Declared)} \ {<<>>}

PrefixKeys ==
    {d.Match.PrefixPath : d \in {x \in Range(Declared) : x.Match.ExactPath = <<>>}}
        \ {<<>>}

\* the entry emitted for a prefix entry: the path with one trailing separator
EmittedPrefix(e) ==
    [e EXCEPT !.Match.PrefixPath = TrimRight(@, {"/"}) \o <<"/">>]

\* C19: for every declared exact path there is exactly one appended entry
\* with that ExactPath, the entry of the alternative declared last, also when
\* a prefix rule would synthesize an Exact copy at that path; for every
\* declared raw prefix path there is exactly one appended Prefix entry, the
\* one of the alternative declared last.
C19_LastDeclaredWins ==
    \A r \in 1..Len(runs) :
        LET a == Appended(runs[r])
            emitted == {EmittedPrefix(LastDeclaredPrefix(q)) : q \in PrefixKeys}
            prefixes == {a[i] : i \in {j \in 1..Len(a) : a[j].Match.PrefixPath # <<>>}}
        IN  /\ \A p \in ExactKeys :
                    /\ Cardinality({i \in 1..Len(a) : a[i].Match.ExactPath = p}) = 1
                    /\ \A i \in 1..Len(a) :
                            a[i].Match.ExactPath = p => a[i] = LastDeclaredExact(p)
            /\ \A x \in emitted \cup prefixes :
                    Cardinality({i \in 1..Len(a) : a[i] = x}) =
                        Cardinality({q \in PrefixKeys :
                                        EmittedPrefix(LastDeclaredPrefix(q)) = x})

\* a call on two rules with different actions that declare the same exact
\* path, the first with a method: one entry, the one of the second rule
C19_Witness ==
    /\ runs # <<>>
    /\ Len(Declared) = 2
    /\ Declared[1].Match.ExactPath = <<"/", "a">>
    /\ Declared[1].Match.Method = "GET"
    /\ Declared[2].Match.ExactPath = <<"/", "a">>
    /\ Declared[2].Match.Method = ""
    /\ Declared[1].Action # Declared[2].Action
    /\ Appended(runs[1]) = <<Declared[2]>>

\* the place of an entry in the order of the kinds
KindRank(e) ==
    IF e.Match.ExactPath # <<>> THEN 2
    ELSE IF e.Match.PrefixPath # <<>> THEN 1
    ELSE 0

\* C20: among the entries one call appends the Other entries come first,
\* then the Prefix entries, then the Exact entries, and no entry has both an
\* ExactPath and a PrefixPath.
C20_OtherPrefixExactOrder ==
    \A r \in 1..Len(runs) :
        LET a == Appended(runs[r])
        IN  /\ \A i, j \in 1..Len(a) : i < j => KindRank(a[i]) <= KindRank(a[j])
            /\ \A i \in 1..Len(a) :
                    a[i].Match.ExactPath = <<>> \/ a[i].Match.PrefixPath = <<>>

\* a call on a prefix declared before an alternative without a path: the
\* Other entry first, then the Prefix entry, the synthesized Exact entry last
C20_Witness ==
    /\ runs # <<>>
    /\ Len(Declared) >= 2
    /\ Declared[1].Match.PrefixPath # <<>>
    /\ IsOther(Declared[2])
    /\ LET a == Appended(runs[1])
       IN  /\ Len(a) >= 3
           /\ IsOther(a[1])
           /\ a[2].Match.PrefixPath = <<"/", "a", "/">>
           /\ a[Len(a)].Match.ExactPath = <<"/", "a">>

(***************************************************************************)
(* TLS context claims.                                                     *)
(***************************************************************************)
\* the subject-alt-name matchers of the context a call returned
SanMatchers(result) ==
    LET vct == result.ctx[1].CommonTlsContext.ValidationContextType
    IN  IF vct.value = Nil THEN <<>>
        ELSE IF vct.type = "CombinedValidationContext"
        THEN vct.value[1].DefaultValidationContext.MatchSubjectAltNames
        ELSE vct.value[1].MatchSubjectAltNames

ExactMatcher(str) == [MatchPattern |-> [type |-> "Exact", value |-> str]]

PrefixMatcher(str) == [MatchPattern |-> [type |-> "Prefix", value |-> str]]

\* C5 as claimed: every context UpstreamTlsContextOutsideMesh returns has a
\* validation context whose only matcher is Exact(hostname), and no error.
C5_AlwaysVerifiesHostname ==
    outsideMesh # Nil =>
        LET call == outsideMesh[1]
        IN  /\ call.result.err = Nil
            /\ call.result.ctx # Nil
            /\ SanMatchers(call.result) = <<ExactMatcher(call.hostname)>>

\* C5 (amended): the call never fails and always returns a context; with a
\* non-nil ca the context has a validation context that trusts ca and whose
\* only matcher is Exact(hostname); with a nil ca it has no validation
\* context and no matcher at all.
C5_VerifiesHostnameIfCa ==
    outsideMesh # Nil =>
        LET call == outsideMesh[1]
            vct == call.result.ctx[1].CommonTlsContext.ValidationContextType
        IN  /\ call.result.err = Nil
            /\ call.result.ctx # Nil
            /\ call.ca # Nil =>
                    /\ vct.value # Nil
                    /\ vct.value[1].TrustedCa = Ptr(dataSourceFromBytes(call.ca[1]))
                    /\ SanMatchers(call.result) = <<ExactMatcher(call.hostname)>>
            /\ call.ca = Nil =>
                    /\ vct.value = Nil
                    /\ SanMatchers(call.result) = <<>>

\* a call with a ca, a certificate and a key, and a hostname that is not the SNI
C5_Witness ==
    /\ outsideMesh # Nil
    /\ outsideMesh[1].ca # Nil
    /\ outsideMesh[1].cert # Nil
    /\ outsideMesh[1].key # Nil
    /\ outsideMesh[1].hostname = <<"a", "/">>
    /\ outsideMesh[1].sni = <<"a">>
    /\ SanMatchers(outsideMesh[1].result) = <<ExactMatcher(<<"a", "/">>)>>

\* the context is the one of a mesh with mTLS: both secrets by name, and a
\* validation context with a matcher
MeshContextComplete(result) ==
    LET common == result.ctx[1].CommonTlsContext
        vct == common.ValidationContextType
    IN  /\ vct.type = "CombinedValidationContext"
        /\ vct.value # Nil
        /\ vct.value[1].ValidationContextSdsSecretConfig.Name = MeshCaResource
        /\ Len(common.TlsCertificateSdsSecretConfigs) = 1
        /\ common.TlsCertificateSdsSecretConfigs[1].Name = IdentityCertResource
        /\ Len(SanMatchers(result)) = 1

MeshContextIffMtls(result) ==
    /\ result.err = Nil
    /\ result.ctx = Nil <=> ~MTLSEnabled(mesh)
    /\ result.ctx # Nil => MeshContextComplete(result)

\* C6: the downstream and the upstream context are nil (with a nil error)
\* exactly when the mesh has no mTLS; otherwise they are present and name the
\* mesh CA and identity certificate secrets.
C6_ContextIffMtls ==
    /\ downstream # Nil => MeshContextIffMtls(downstream[1].result)
    /\ upstream # Nil => MeshContextIffMtls(upstream[1].result)

\* both calls made on a mesh with mTLS, both returned a context
C6_Witness ==
    /\ MTLSEnabled(mesh)
    /\ downstream # Nil /\ downstream[1].result.ctx # Nil
    /\ upstream # Nil /\ upstream[1].result.ctx # Nil

\* C7: with mTLS, the upstream context for "*" has the matcher of the
\* downstream context, Prefix(mesh identity prefix); for another target it has
\* Exact(identity of mesh and service); the upstream context has the mesh ALPN list,
\* the downstream context has none and requires a client certificate.
C7_UpstreamMatcher ==
    MTLSEnabled(mesh) =>
        /\ downstream # Nil =>
                LET d == downstream[1].result
                IN  /\ SanMatchers(d) =
                        <<PrefixMatcher(MeshSpiffeIDPrefix(mesh.name))>>
                    /\ d.ctx[1].CommonTlsContext.AlpnProtocols = <<>>
                    /\ d.ctx[1].RequireClientCertificate = Ptr(TRUE)
        /\ upstream # Nil =>
                LET u == upstream[1]
                IN  /\ u.result.ctx[1].CommonTlsContext.AlpnProtocols = KumaALPNProtocols
                    /\ u.upstreamService = <<"*">> =>
                            /\ SanMatchers(u.result) =
                                <<PrefixMatcher(MeshSpiffeIDPrefix(mesh.name))>>
                            /\ downstream # Nil =>
                                    SanMatchers(u.result) = SanMatchers(downstream[1].result)
                    /\ u.upstreamService # <<"*">> =>
                            SanMatchers(u.result) =
                                <<ExactMatcher(ServiceSpiffeID(mesh.name,
                                                               u.upstreamService))>>

\* with mTLS, the downstream call and an upstream call for "*" were made
C7_Witness ==
    /\ MTLSEnabled(mesh)
    /\ downstream # Nil
    /\ upstream # Nil
    /\ upstream[1].upstreamService = <<"*">>
    /\ SanMatchers(upstream[1].result) = SanMatchers(downstream[1].result)

\* C8: the matcher of a concrete upstream target differs from the matcher of
\* every other service name of the mesh and from the mesh-wide matcher.
C8_MatcherInjective ==
    /\ \A s1, s2 \in Names :
            s1 # s2 => ServiceSpiffeIDMatcher(mesh.name, s1)
                            # ServiceSpiffeIDMatcher(mesh.name, s2)
    /\ \A s1 \in Names :
            ServiceSpiffeIDMatcher(mesh.name, s1) # MeshSpiffeIDPrefixMatcher(mesh.name)
    /\ (MTLSEnabled(mesh) /\ upstream # Nil /\ upstream[1].upstreamService # <<"*">>) =>
            LET u == upstream[1]
            IN  /\ \A s2 \in Names \ {u.upstreamService} :
                        SanMatchers(u.result)
                            # SanMatchers(CreateUpstreamTlsContext(mesh, s2, u.sni))
                /\ SanMatchers(u.result)
                        # SanMatchers(CreateUpstreamTlsContext(mesh, <<"*">>, u.sni))
                /\ downstream # Nil =>
                        SanMatchers(u.result) # SanMatchers(downstream[1].result)

\* with mTLS, an upstream call for the empty service name and the
\* downstream call were made
C8_Witness ==
    /\ MTLSEnabled(mesh)
    /\ downstream # Nil
    /\ upstream # Nil
    /\ upstream[1].upstreamService = <<>>
    /\ upstream[1].result.ctx # Nil

(***************************************************************************)
(* Metadata claims.                                                        *)
(***************************************************************************)
\* C2: the decode returns a record for every bag, without a panic, and a
\* field that could not be decoded reads as its zero value.
C2_DecodeTotal ==
    decoded # Nil =>
        /\ ~decoded[1].panic
        /\ decoded[1].metadata # Nil
        /\ xdsMetadata # Nil =>
                LET fields == xdsMetadata[1]
                    m == decoded[1].metadata[1]
                    res == GetStringValue(fields[fieldDataplaneDataplaneResource])
                    vs == GetStructValue(fields[fieldVersion])
                IN  /\ res \notin {<<"Dataplane">>, <<"ZoneIngress">>} => m.Resource = Nil
                    /\ Atoi(GetStringValue(fields[fieldDataplaneAdminPort])).err
                            => m.AdminPort = ZeroPort
                    /\ Atoi(GetStringValue(fields[fieldDataplaneDNSPort])).err
                            => m.DNSPort = ZeroPort
                    /\ Atoi(GetStringValue(fields[fieldDataplaneDNSEmptyPort])).err
                            => m.EmptyDNSPort = ZeroPort
                    /\ (vs # Nil /\ \E k \in DOMAIN vs[1] : ~Decodable(vs[1], k))
                            => m.Version = Nil

\* the record the decode returned, Nil before the decode and after a panic
Record == IF decoded = Nil THEN Nil ELSE decoded[1].metadata

PortFields ==
    {fieldDataplaneAdminPort, fieldDataplaneDNSPort, fieldDataplaneDNSEmptyPort}

PortOf(m, field) ==
    CASE field = fieldDataplaneAdminPort -> GetAdminPort(m)
      [] field = fieldDataplaneDNSPort -> GetDNSPort(m)
      [] field = fieldDataplaneDNSEmptyPort -> GetEmptyDNSPort(m)

PortKey(field) ==
    CASE field = fieldDataplaneAdminPort -> "AdminPort"
      [] field = fieldDataplaneDNSPort -> "DNSPort"
      [] field = fieldDataplaneDNSEmptyPort -> "EmptyDNSPort"

\* the value is present and is not a string that parses as an integer
MalformedPort(v) == v # Nil /\ (v[1].kind # "string" \/ Atoi(v[1].str).err)

RECURSIVE LogAbout(_, _, _)
LogAbout(log, field, i) ==
    IF i > Len(log) THEN <<>>
    ELSE (IF log[i].field = field THEN <<log[i]>> ELSE <<>>) \o LogAbout(log, field, i + 1)

RECURSIVE LogNotAbout(_, _, _)
LogNotAbout(log, field, i) ==
    IF i > Len(log) THEN <<>>
    ELSE (IF log[i].field # field THEN <<log[i]>> ELSE <<>>)
            \o LogNotAbout(log, field, i + 1)

\* the decode of the bag with a valid value in the port field gives this
\* record and this log, but for the port itself
AsIfPortWereValid(field) ==
    LET bag == Ptr([xdsMetadata[1] EXCEPT ![field] = StringValue(<<"1">>)])
    IN  \E typed \in ToTypedOutcomes(GetFields(GetStructValue(bag[1][fieldVersion]))) :
            LET ref == Decode(bag, typed)
            IN  /\ ref.panic = decoded[1].panic
                /\ ref.log = LogNotAbout(metadataLog, field, 1)
                /\ ~ref.panic =>
                        \A other \in DOMAIN ZeroMetadata \ {PortKey(field)} :
                            ref.metadata[1][other] = Record[1][other]

\* C15: when a port field is absent or malformed, the decode succeeds, the
\* port and its accessor are 0, the other fields are decoded as if the port
\* field were valid, and there is one log record about the field when it is
\* present and none when it is absent.
C15_MalformedPortIsZero ==
    (decoded # Nil /\ xdsMetadata # Nil) =>
        \A field \in PortFields :
            LET v == xdsMetadata[1][field]
            IN  (v = Nil \/ MalformedPort(v)) =>
                    /\ ~decoded[1].panic
                    /\ Record # Nil
                    /\ PortOf(Record, field) = ZeroPort
                    /\ Len(LogAbout(metadataLog, field, 1)) = IF v = Nil THEN 0 ELSE 1
                    /\ AsIfPortWereValid(field)

\* the same for the decodes that do not stop in the resource field
C15_MalformedPortIsZeroIfDecoded ==
    (decoded # Nil /\ ~decoded[1].panic) => C15_MalformedPortIsZero

\* the version field is a struct that util_proto.ToTyped rejects
VersionFailsToDecode(bag) ==
    LET vs == GetStructValue(bag[1][fieldVersion])
    IN  vs # Nil /\ \E k \in DOMAIN vs[1] : ~Decodable(vs[1], k)

\* C16: when the version field is a struct that fails to decode, GetVersion
\* returns the absent version, as it does when the bag has no version field.
C16_FailedVersionIsEmpty ==
    (decoded # Nil /\ ~decoded[1].panic /\ xdsMetadata # Nil) =>
        (VersionFailsToDecode(xdsMetadata) => GetVersion(Record) = Nil)

\* every accessor reads the value of a record without any field
AccessorsReadZero(m) ==
    /\ GetDataplaneToken(m) = <<>>
    /\ GetAdminPort(m) = ZeroPort
    /\ GetDNSPort(m) = ZeroPort
    /\ GetEmptyDNSPort(m) = ZeroPort
    /\ \A key \in {"a", "b", "c"} : GetDynamicMetadata(m, key) = <<>>
    /\ GetVersion(m) = Nil
    /\ GetDataplaneResource(m) = Nil
    /\ GetZoneIngressResource(m) = Nil
    /\ GetProxyType(m) = DataplaneProxyType

\* the bag has no field at all
EmptyBag(bag) == bag # Nil /\ \A f \in DOMAIN bag[1] : bag[1][f] = Nil

\* C17: the accessors return the zero values on the nil record and on the
\* record decoded from a nil or an empty bag, and on any record at most
\* one of GetDataplaneResource and GetZoneIngressResource is non-nil.
C17_AccessorsAreNilSafe ==
    /\ AccessorsReadZero(Nil)
    /\ (decoded # Nil /\ (xdsMetadata = Nil \/ EmptyBag(xdsMetadata))) =>
            /\ ~decoded[1].panic
            /\ Record # Nil
            /\ AccessorsReadZero(Record)
    /\ GetDataplaneResource(Record) = Nil \/ GetZoneIngressResource(Record) = Nil

\* the record decoded from a bag without fields
C17_Witness ==
    /\ decoded # Nil
    /\ EmptyBag(xdsMetadata)
    /\ Record # Nil
    /\ Record[1] = ZeroMetadata

\* the port is the integer the parsed string denotes: not negative, below
\* 2^32, and the same 32 bits
IsDenotedBy(port, parsed) ==
    /\ ~parsed.err
    /\ ~parsed.neg
    /\ parsed.limbs[3] = 0 /\ parsed.limbs[4] = 0
    /\ port = [hi |-> parsed.limbs[2], lo |-> parsed.limbs[1]]

\* C21: for every string value of a port field the decoded port is 0 or the
\* non-negative integer the string denotes; a negative integer or one of 2^32
\* or more never gives another port.
C21_PortIsZeroOrDenoted ==
    (decoded # Nil /\ ~decoded[1].panic /\ xdsMetadata # Nil) =>
        \A field \in PortFields :
            LET v == xdsMetadata[1][field]
            IN  (v # Nil /\ v[1].kind = "string") =>
                    \/ PortOf(Record, field) = ZeroPort
                    \/ IsDenotedBy(PortOf(Record, field), Atoi(v[1].str))

====
